---- MODULE Spec2Model ----
(***************************************************************************)
(* Site registry of the site-launcher extension: shared/sites.ts, the      *)
(* options page (options/App.tsx) and the popup (popup/App.tsx), over the   *)
(* chrome.storage.local key "sites".                                        *)
(*                                                                          *)
(* JavaScript strings are sequences of one-character strings, so that trim, *)
(* toUpperCase, the scheme regex and URL parsing are computed, not assumed. *)
(* Array indices are 0-based as in the source; the element with index i of  *)
(* an array a is a[i + 1].                                                  *)
(***************************************************************************)
EXTENDS Integers, Sequences, FiniteSets, TLC

(***************************************************************************)
(* Bounds                                                                   *)
(***************************************************************************)
\* longest registry a surface may grow by adding
MaxSites == 3

(***************************************************************************)
(* Characters and strings                                                   *)
(***************************************************************************)
Range(s) == {s[i] : i \in 1..Len(s)}

LowerAlpha == <<"a", "b", "c", "d", "e", "f", "g", "h", "i", "j", "k", "l", "m", "n", "o", "p", "q", "r", "s", "t", "u", "v", "w", "x", "y", "z">>
UpperAlpha == <<"A", "B", "C", "D", "E", "F", "G", "H", "I", "J", "K", "L", "M", "N", "O", "P", "Q", "R", "S", "T", "U", "V", "W", "X", "Y", "Z">>
Digits == <<"0", "1", "2", "3", "4", "5", "6", "7", "8", "9">>
Letters == Range(LowerAlpha) \cup Range(UpperAlpha)

\* the upper-case and the lower-case form of each letter
UpperOf == [c \in Range(LowerAlpha) |-> UpperAlpha[CHOOSE i \in 1..26 : LowerAlpha[i] = c]]
LowerOf == [c \in Range(UpperAlpha) |-> LowerAlpha[CHOOSE i \in 1..26 : UpperAlpha[i] = c]]

\* the white space String.prototype.trim removes
WhiteSpace == {" "}

\* a value whose typeof is not "string" (a number, an object, undefined)
NotAString == <<"<non-string>">>

IsString(v) == v # NotAString

\* String.prototype.toUpperCase, one character
ToUpperChar(c) == IF c \in DOMAIN UpperOf THEN UpperOf[c] ELSE c

\* String.prototype.toLowerCase, one character
ToLowerChar(c) == IF c \in DOMAIN LowerOf THEN LowerOf[c] ELSE c

toUpperCase(s) == [i \in 1..Len(s) |-> ToUpperChar(s[i])]

toLowerCase(s) == [i \in 1..Len(s) |-> ToLowerChar(s[i])]

\* String.prototype.trim
trim(s) ==
  IF \A i \in 1..Len(s) : s[i] \in WhiteSpace
    THEN <<>>
    ELSE LET first == CHOOSE i \in 1..Len(s) :
                        /\ s[i] \notin WhiteSpace
                        /\ \A j \in 1..(i - 1) : s[j] \in WhiteSpace
             last == CHOOSE i \in 1..Len(s) :
                        /\ s[i] \notin WhiteSpace
                        /\ \A j \in (i + 1)..Len(s) : s[j] \in WhiteSpace
         IN  SubSeq(s, first, last)

\* s begins with the characters of p
StartsWith(s, p) == Len(s) >= Len(p) /\ SubSeq(s, 1, Len(p)) = p

\* index of the first character of s that lies in set cs, 0 when there is none
FirstIn(s, cs) ==
  IF \E i \in 1..Len(s) : s[i] \in cs
    THEN CHOOSE i \in 1..Len(s) : s[i] \in cs /\ \A j \in 1..(i - 1) : s[j] \notin cs
    ELSE 0

\* s without its leading characters that lie in set cs
DropLeading(s, cs) ==
  IF \A i \in 1..Len(s) : s[i] \in cs
    THEN <<>>
    ELSE SubSeq(s, CHOOSE i \in 1..Len(s) :
                     s[i] \notin cs /\ \A j \in 1..(i - 1) : s[j] \in cs, Len(s))

HTTPS_PREFIX == <<"h", "t", "t", "p", "s", ":", "/", "/">>
HTTP_PREFIX == <<"h", "t", "t", "p", ":", "/", "/">>

(***************************************************************************)
(* new URL(url) without a base: TRUE when the WHATWG parser accepts url,    *)
(* FALSE when it throws.  The input is stripped of surrounding spaces; it   *)
(* needs a scheme (a letter, then letters, digits, "+", "-", "."), ended by *)
(* ":"; for a special scheme the slashes are skipped and the host, the text *)
(* up to the first "/", "?", "#" or ":", must be non-empty and free of      *)
(* forbidden host code points, and the port must be digits.  Other schemes  *)
(* give an opaque path, which is accepted.                                  *)
(***************************************************************************)
SpecialSchemes == {<<"h", "t", "t", "p">>, <<"h", "t", "t", "p", "s">>, <<"f", "t", "p">>, <<"w", "s">>, <<"w", "s", "s">>}
SchemeChars == Letters \cup Range(Digits) \cup {"+", "-", "."}
PortChars == Range(Digits)
ForbiddenHostChars == {" ", "<", ">", "[", "]", "^", "|", "%", "@"}

UrlParses(url) ==
  LET t == trim(url)
      c == FirstIn(t, {":"})
  IN  /\ c > 1
      /\ t[1] \in Letters
      /\ \A i \in 1..(c - 1) : t[i] \in SchemeChars
      /\ LET scheme == toLowerCase(SubSeq(t, 1, c - 1))
             rest == DropLeading(SubSeq(t, c + 1, Len(t)), {"/", "\\"})
             e == FirstIn(rest, {"/", "?", "#", "\\"})
             authority == IF e = 0 THEN rest ELSE SubSeq(rest, 1, e - 1)
             p == FirstIn(authority, {":"})
             host == IF p = 0 THEN authority ELSE SubSeq(authority, 1, p - 1)
             port == IF p = 0 THEN <<>> ELSE SubSeq(authority, p + 1, Len(authority))
         IN  scheme \in SpecialSchemes =>
               /\ host # <<>>
               /\ Range(host) \cap ForbiddenHostChars = {}
               /\ Range(port) \subseteq PortChars

(***************************************************************************)
(* shared/sites.ts                                                          *)
(***************************************************************************)
VALID_KEYS == <<"A", "B", "C", "D", "E", "F", "G", "H", "I", "J", "K", "L", "M", "N", "O", "P", "Q", "R", "S", "T", "U", "V", "W", "X", "Y", "Z", "0", "1", "2", "3", "4", "5", "6", "7", "8", "9">>
ValidKeySet == Range(VALID_KEYS)

Site(n, u, k) == [name |-> n, url |-> u, key |-> k]

\* the values an array slot can hold besides a Site: null (a sanitizeSite
\* rejection, or what the store keeps for an empty slot), undefined, and an
\* empty slot of a sparse array
Null == Site(<<"<null>">>, <<>>, <<>>)
Undefined == Site(<<"<undefined>">>, <<>>, <<>>)
EmptySlot == Site(<<"<empty slot>">>, <<>>, <<>>)

IsObject(x) == x \notin {Null, Undefined, EmptySlot}

S_Google == <<"G", "o", "o", "g", "l", "e">>
U_https_google_com == <<"h", "t", "t", "p", "s", ":", "/", "/", "g", "o", "o", "g", "l", "e", ".", "c", "o", "m">>

DEFAULT_SITES == <<Site(S_Google, U_https_google_com, <<"G">>)>>

normalizeUrl(url) ==
  LET trimmed == trim(url)
      \* /^https?:\/\//i looks at the first eight characters at most
      head == toLowerCase(SubSeq(trimmed, 1, IF Len(trimmed) < 8 THEN Len(trimmed) ELSE 8))
  IN  IF trimmed = <<>>
        THEN trimmed
        ELSE IF ~(StartsWith(head, HTTP_PREFIX) \/ StartsWith(head, HTTPS_PREFIX))
               THEN HTTPS_PREFIX \o trimmed
               ELSE trimmed

sanitizeSite(site) ==
  IF ~IsObject(site) THEN Null
  ELSE IF site.name = <<>> \/ ~IsString(site.name) THEN Null
  ELSE IF site.url = <<>> \/ ~IsString(site.url) THEN Null
  ELSE IF site.key = <<>> \/ ~IsString(site.key) THEN Null
  ELSE LET normalizedKey == toUpperCase(trim(site.key))
       IN  IF ~(Len(normalizedKey) = 1 /\ normalizedKey[1] \in ValidKeySet)
             THEN Null
           ELSE IF ~UrlParses(site.url) THEN Null
           ELSE Site(trim(site.name), normalizeUrl(site.url), normalizedKey)

\* xs.map(sanitizeSite).filter(site => site !== null)
MapSanitize(xs) ==
  SelectSeq([i \in 1..Len(xs) |-> sanitizeSite(xs[i])], LAMBDA s : s # Null)

\* the loop of loadSites: the first entry of each key is kept
RECURSIVE Deduplicate(_, _)
Deduplicate(sanitized, seenKeys) ==
  IF sanitized = <<>> THEN <<>>
  ELSE IF Head(sanitized).key \in seenKeys
         THEN Deduplicate(Tail(sanitized), seenKeys)
         ELSE <<Head(sanitized)>>
                \o Deduplicate(Tail(sanitized), seenKeys \cup {Head(sanitized).key})

\* what chrome.storage.local holds under "sites": nothing, a value that is
\* not an array, or an array
Absent == [kind |-> "absent", items |-> <<>>]
NotAnArray == [kind |-> "value", items |-> <<>>]
Stored(xs) == [kind |-> "array", items |-> xs]

\* the array as the store keeps it: a slot without a value is stored as null
Serialize(xs) ==
  [i \in 1..Len(xs) |-> IF xs[i] \in {Undefined, EmptySlot} THEN Null ELSE xs[i]]

\* loadSites without the fall-back for a list that sanitising emptied
loadSitesNoFallback(st, readOk) ==
  IF ~readOk THEN DEFAULT_SITES
  ELSE IF st.kind # "array" THEN DEFAULT_SITES
  ELSE Deduplicate(MapSanitize(st.items), {})

\* loadSites; readOk is FALSE when chrome.storage.local.get rejects
loadSites(st, readOk) ==
  IF ~readOk THEN DEFAULT_SITES
  ELSE IF st.kind # "array" THEN DEFAULT_SITES
  ELSE LET deduplicated == Deduplicate(MapSanitize(st.items), {})
       IN  IF Len(deduplicated) > 0 THEN deduplicated ELSE DEFAULT_SITES

\* [...baseSites]: a copy in which every empty slot holds undefined
Spread(xs) == [i \in 1..Len(xs) |-> IF xs[i] = EmptySlot THEN Undefined ELSE xs[i]]

\* outcome of an operation: what it returned, or that it threw, and the write
\* it made.  write is "none", "ok" (the store now holds Serialize(sites)) or
\* "failed" (chrome.storage.local.set rejected).
Outcome(r, xs, w) == [result |-> r, sites |-> xs, write |-> w]

\* index of the first slot at which sites.find(s => s.key.toUpperCase() ===
\* key.toUpperCase()) stops: a match, or a slot without a key, on which it
\* throws; 0 when it runs to the end
FindStop(sites, key) ==
  LET Hit(i) == ~IsObject(sites[i]) \/ toUpperCase(sites[i].key) = toUpperCase(key)
  IN  IF \E i \in 1..Len(sites) : Hit(i)
        THEN CHOOSE i \in 1..Len(sites) : Hit(i) /\ \A j \in 1..(i - 1) : ~Hit(j)
        ELSE 0

\* addSite with the validity check made before the duplicate-key check
addSiteValidateFirst(site, baseSites, saveOk) ==
  LET sites == Spread(baseSites)
      stop == FindStop(sites, site.key)
      normalizedSite == sanitizeSite(site)
  IN  IF normalizedSite = Null THEN Outcome("Invalid", <<>>, "none")
      ELSE IF stop > 0 /\ ~IsObject(sites[stop]) THEN Outcome("threw", <<>>, "none")
      ELSE IF stop > 0 THEN Outcome("DuplicateKey", <<>>, "none")
      ELSE IF ~saveOk THEN Outcome("threw", <<>>, "failed")
      ELSE Outcome("success", Append(sites, normalizedSite), "ok")

\* addSite with the write made before the checks
addSiteSaveFirst(site, baseSites, saveOk) ==
  LET sites == Spread(baseSites)
      stop == FindStop(sites, site.key)
      normalizedSite == sanitizeSite(site)
      updated == Append(sites, normalizedSite)
  IN  IF ~saveOk THEN Outcome("threw", <<>>, "failed")
      ELSE IF stop > 0 /\ ~IsObject(sites[stop]) THEN Outcome("threw", updated, "ok")
      ELSE IF stop > 0 THEN Outcome("DuplicateKey", updated, "ok")
      ELSE IF normalizedSite = Null THEN Outcome("Invalid", updated, "ok")
      ELSE Outcome("success", updated, "ok")

\* addSite putting the new site first
addSitePrepend(site, baseSites, saveOk) ==
  LET sites == Spread(baseSites)
      stop == FindStop(sites, site.key)
      normalizedSite == sanitizeSite(site)
  IN  IF stop > 0 /\ ~IsObject(sites[stop]) THEN Outcome("threw", <<>>, "none")
      ELSE IF stop > 0 THEN Outcome("DuplicateKey", <<>>, "none")
      ELSE IF normalizedSite = Null THEN Outcome("Invalid", <<>>, "none")
      ELSE IF ~saveOk THEN Outcome("threw", <<>>, "failed")
      ELSE Outcome("success", <<normalizedSite>> \o sites, "ok")

\* addSite(site, baseSites); saveOk is FALSE when the write is rejected
addSite(site, baseSites, saveOk) ==
  LET sites == Spread(baseSites)
      stop == FindStop(sites, site.key)
      normalizedSite == sanitizeSite(site)
      updated == Append(sites, normalizedSite)
  IN  IF stop > 0 /\ ~IsObject(sites[stop]) THEN Outcome("threw", <<>>, "none")
      ELSE IF stop > 0 THEN Outcome("DuplicateKey", <<>>, "none")
      ELSE IF normalizedSite = Null THEN Outcome("Invalid", <<>>, "none")
      ELSE IF ~saveOk THEN Outcome("threw", <<>>, "failed")
      ELSE Outcome("success", updated, "ok")

\* sites.filter((_, i) => i !== index)
FilterIndex(sites, index) ==
  LET keep == {i \in 0..(Len(sites) - 1) : i # index}
  IN  [j \in 1..Cardinality(keep) |->
         IF j - 1 < index \/ index < 0 THEN sites[j] ELSE sites[j + 1]]

\* removeSiteByIndex written with splice(index, 1), which counts a negative
\* index from the end
removeSiteByIndexSplice(index, baseSites, saveOk) ==
  LET sites == Spread(baseSites)
      at == IF index < 0
              THEN (IF Len(sites) + index < 0 THEN 0 ELSE Len(sites) + index)
              ELSE index
  IN  IF ~saveOk THEN Outcome("threw", <<>>, "failed")
      ELSE Outcome("success", FilterIndex(sites, at), "ok")

\* removeSiteByIndex with the rejection of the write swallowed
removeSiteByIndexSwallow(index, baseSites, saveOk) ==
  LET sites == Spread(baseSites)
  IN  Outcome("success", FilterIndex(sites, index), IF saveOk THEN "ok" ELSE "failed")

\* removeSiteByIndex(index, baseSites)
removeSiteByIndex(index, baseSites, saveOk) ==
  LET sites == Spread(baseSites)
      updated == FilterIndex(sites, index)
  IN  IF ~saveOk THEN Outcome("threw", <<>>, "failed")
      ELSE Outcome("success", updated, "ok")

\* saveSites: the value the store holds after a write of xs that succeeded
saveSites(xs) == Stored(Serialize(xs))

\* the loop of sanitizeSiteList: the first entry of each upper-cased key is
\* kept, with its key upper-cased
RECURSIVE DeduplicateUpper(_, _)
DeduplicateUpper(sanitized, seenKeys) ==
  IF sanitized = <<>> THEN <<>>
  ELSE LET site == Head(sanitized)
           upperKey == toUpperCase(site.key)
       IN  IF upperKey \in seenKeys
             THEN DeduplicateUpper(Tail(sanitized), seenKeys)
             ELSE <<Site(site.name, site.url, upperKey)>>
                    \o DeduplicateUpper(Tail(sanitized), seenKeys \cup {upperKey})

\* a parsed JSON value, as far as importSitesFromJson looks at it: an array,
\* an object and the array under its "sites" member if it has one, or any
\* other value (null, a number, a string)
JsonArray(xs) == [json |-> "array", sites |-> xs, hasSites |-> FALSE]
JsonObjectWithSites(xs) == [json |-> "object", sites |-> xs, hasSites |-> TRUE]
JsonObject == [json |-> "object", sites |-> <<>>, hasSites |-> FALSE]
JsonOther == [json |-> "other", sites |-> <<>>, hasSites |-> FALSE]
\* a text JSON.parse throws on
NotJson == [json |-> "invalid", sites |-> <<>>, hasSites |-> FALSE]

\* sanitizeSiteList without the loop that drops repeated keys
sanitizeSiteListNoDedup(value) ==
  IF value.json # "array" THEN <<>>
  ELSE MapSanitize(value.sites)

\* sanitizeSiteList applied to a parsed JSON value
sanitizeSiteList(value) ==
  IF value.json # "array" THEN <<>>
  ELSE DeduplicateUpper(MapSanitize(value.sites), {})

\* importSitesFromJson with the write made before the list is looked at
importSitesFromJsonSaveFirst(doc, saveOk) ==
  LET candidate == IF doc.hasSites THEN JsonArray(doc.sites) ELSE doc
      sanitized == sanitizeSiteList(candidate)
  IN  IF doc.json = "invalid" THEN Outcome("ParseError", <<>>, "none")
      ELSE IF ~saveOk THEN Outcome("ParseError", <<>>, "failed")
      ELSE IF Len(sanitized) = 0 THEN Outcome("EmptyImport", sanitized, "ok")
      ELSE Outcome("success", sanitized, "ok")

\* importSitesFromJson; doc is what JSON.parse makes of the text
importSitesFromJson(doc, saveOk) ==
  LET candidate == IF doc.hasSites THEN JsonArray(doc.sites) ELSE doc
      sanitized == sanitizeSiteList(candidate)
  IN  IF doc.json = "invalid" THEN Outcome("ParseError", <<>>, "none")
      ELSE IF Len(sanitized) = 0 THEN Outcome("EmptyImport", <<>>, "none")
      \* a rejected write is caught by the same catch as a JSON.parse error
      ELSE IF ~saveOk THEN Outcome("ParseError", <<>>, "failed")
      ELSE Outcome("success", sanitized, "ok")

\* the preferred argument left out (undefined), and the null generateKey
\* returns when no key is free
NoPreferred == NotAString
NoKey == <<"<null>">>

\* the loop of generateKey over a given order of candidates: the first one
\* that is not in used (a set of strings), NoKey when all are
FirstUnused(order, used) ==
  IF \E i \in 1..Len(order) : <<order[i]>> \notin used
    THEN <<order[CHOOSE i \in 1..Len(order) :
                   /\ <<order[i]>> \notin used
                   /\ \A j \in 1..(i - 1) : <<order[j]>> \in used]>>
    ELSE NoKey

\* generateKey scanning the digits before the letters
generateKeyDigitsFirst(existingSites, preferred) ==
  LET used == {toUpperCase(existingSites[i].key) : i \in 1..Len(existingSites)}
      normalizedPreferred == toUpperCase(trim(preferred))
  IN  IF /\ preferred # NoPreferred /\ preferred # <<>>
         /\ Len(normalizedPreferred) = 1 /\ normalizedPreferred[1] \in ValidKeySet
         /\ normalizedPreferred \notin used
        THEN normalizedPreferred
        ELSE FirstUnused(Digits \o UpperAlpha, used)

\* generateKey returning a legal preferred key whether it is used or not
generateKeyKeepsPreferred(existingSites, preferred) ==
  LET used == {toUpperCase(existingSites[i].key) : i \in 1..Len(existingSites)}
      normalizedPreferred == toUpperCase(trim(preferred))
  IN  IF /\ preferred # NoPreferred /\ preferred # <<>>
         /\ Len(normalizedPreferred) = 1 /\ normalizedPreferred[1] \in ValidKeySet
        THEN normalizedPreferred
        ELSE FirstUnused(VALID_KEYS, used)

\* generateKey(existingSites, preferred)
generateKey(existingSites, preferred) ==
  LET used == {toUpperCase(existingSites[i].key) : i \in 1..Len(existingSites)}
      normalizedPreferred == toUpperCase(trim(preferred))
  IN  IF /\ preferred # NoPreferred /\ preferred # <<>>
         /\ Len(normalizedPreferred) = 1 /\ normalizedPreferred[1] \in ValidKeySet
         /\ normalizedPreferred \notin used
        THEN normalizedPreferred
        ELSE FirstUnused(VALID_KEYS, used)

\* lines 173-188 of upsertSite: sites is the list loadSites returned and
\* normalizedSite what sanitizeSite made of the argument
upsertLoaded(sites, normalizedSite, saveOk) ==
  LET Match(i) == sites[i].key = normalizedSite.key
      \* findIndex, 0-based, -1 when no entry has the key
      existingIndex == IF \E i \in 1..Len(sites) : Match(i)
                         THEN (CHOOSE i \in 1..Len(sites) :
                                 Match(i) /\ \A j \in 1..(i - 1) : ~Match(j)) - 1
                         ELSE -1
      updated == IF existingIndex >= 0
                   THEN [sites EXCEPT ![existingIndex + 1] = normalizedSite]
                   ELSE Append(sites, normalizedSite)
  IN  IF normalizedSite = Null THEN Outcome("rejected", sites, "none")
      ELSE IF ~saveOk THEN Outcome("threw", <<>>, "failed")
      ELSE Outcome("success", updated, "ok")

\* upsertSite written to drop the entry of the key and append the new one
upsertSiteMoveToEnd(site, st, readOk, saveOk) ==
  CHOOSE out \in { IF normalizedSite = Null THEN Outcome("rejected", sites, "none")
                   ELSE IF ~saveOk THEN Outcome("threw", <<>>, "failed")
                   ELSE Outcome("success",
                                Append(SelectSeq(sites, LAMBDA x : x.key # normalizedSite.key),
                                       normalizedSite), "ok") :
                     sites \in {loadSites(st, readOk)},
                     normalizedSite \in {sanitizeSite(site)} } : TRUE

\* upsertSite writing the list back also when sanitizeSite rejects the site
upsertSiteAlwaysSaves(site, st, readOk, saveOk) ==
  CHOOSE out \in { IF ~saveOk THEN Outcome("threw", <<>>, "failed")
                   ELSE IF normalizedSite = Null THEN Outcome("rejected", sites, "ok")
                   ELSE upsertLoaded(sites, normalizedSite, saveOk) :
                     sites \in {loadSites(st, readOk)},
                     normalizedSite \in {sanitizeSite(site)} } : TRUE

\* upsertSite(site): the list is read from the store st and the argument
\* sanitised, each once; a site that sanitizeSite rejects gives the list back
\* with nothing written
upsertSite(site, st, readOk, saveOk) ==
  CHOOSE out \in { upsertLoaded(sites, normalizedSite, saveOk) :
                     sites \in {loadSites(st, readOk)},
                     normalizedSite \in {sanitizeSite(site)} } : TRUE

\* exportSitesAsJson written to dump the stored array as it is
exportSitesAsJsonStored(st, readOk) ==
  JsonObjectWithSites(IF readOk /\ st.kind = "array" THEN st.items ELSE DEFAULT_SITES)

\* exportSitesAsJson: the document JSON.parse reads back from the text, an
\* object whose "sites" member is the array loadSites returned
exportSitesAsJson(st, readOk) == JsonObjectWithSites(loadSites(st, readOk))

(***************************************************************************)
(* options/App.tsx, the pure part of handleFormSubmit                       *)
(***************************************************************************)
\* the fields with the key upper-cased but not trimmed
FormSiteUntrimmedKey(n, u, k) == Site(trim(n), normalizeUrl(u), toUpperCase(k))

\* lines 153-160: the three fields as the handler normalises them
FormSite(n, u, k) == Site(trim(n), normalizeUrl(u), toUpperCase(trim(k)))

FieldsFilled(site) == site.name # <<>> /\ site.url # <<>> /\ site.key # <<>>

\* updated[editingIndex] = site on a copy of sites: replaces the slot, or
\* extends the array, leaving the slots in between empty
AssignAt(xs, index, site) ==
  [i \in 1..(IF index + 1 > Len(xs) THEN index + 1 ELSE Len(xs)) |->
     IF i = index + 1 THEN site
     ELSE IF i <= Len(xs) THEN xs[i]
     ELSE EmptySlot]

\* the edit branch with the edited slot not left out of the key check
handleFormSubmitEditAllSlots(editingIndex, site, sites, saveOk) ==
  LET Hit(i) == ~IsObject(sites[i]) \/ toUpperCase(sites[i].key) = site.key
      stop == IF \E i \in 1..Len(sites) : Hit(i)
                THEN CHOOSE i \in 1..Len(sites) : Hit(i) /\ \A j \in 1..(i - 1) : ~Hit(j)
                ELSE 0
  IN  IF stop > 0 /\ ~IsObject(sites[stop]) THEN Outcome("threw", <<>>, "none")
      ELSE IF stop > 0 THEN Outcome("DuplicateKey", <<>>, "none")
      ELSE IF ~saveOk THEN Outcome("threw", <<>>, "failed")
      ELSE Outcome("success", AssignAt(Spread(sites), editingIndex, site), "ok")

\* the edit branch of handleFormSubmit (lines 162-187): site holds the
\* normalised fields, sites is the snapshot of the page
handleFormSubmitEdit(editingIndex, site, sites, saveOk) ==
  LET \* sites.findIndex visits every slot, empty ones as undefined
      Hit(i) == /\ i - 1 # editingIndex
                /\ ~IsObject(sites[i]) \/ toUpperCase(sites[i].key) = site.key
      stop == IF \E i \in 1..Len(sites) : Hit(i)
                THEN CHOOSE i \in 1..Len(sites) : Hit(i) /\ \A j \in 1..(i - 1) : ~Hit(j)
                ELSE 0
      updated == AssignAt(Spread(sites), editingIndex, site)
  IN  IF stop > 0 /\ ~IsObject(sites[stop]) THEN Outcome("threw", <<>>, "none")
      ELSE IF stop > 0 THEN Outcome("DuplicateKey", <<>>, "none")
      ELSE IF ~saveOk THEN Outcome("threw", <<>>, "failed")
      ELSE Outcome("success", updated, "ok")

(***************************************************************************)
(* State                                                                    *)
(***************************************************************************)
VARIABLES
  store,         \* chrome.storage.local, key "sites"
  popupOpen,     \* the popup is mounted
  popupSites,    \* popup/App.tsx: sites
  optOpen,       \* the options page is mounted
  optSites,      \* options/App.tsx: sites
  formMode,      \* options/App.tsx: formMode
  editingIndex,  \* options/App.tsx: editingIndex, NoIndex for null
  formName,      \* options/App.tsx: formName
  formUrl,       \* options/App.tsx: formUrl
  formKey,       \* options/App.tsx: formKey
  callerSites,   \* the snapshot held by a direct caller of shared/sites.ts
  last,          \* the operation the last step performed: arguments and outcome
  pendingSite,   \* chrome.storage.local, key "pendingSite"
  pages,         \* the options pages running loadPendingSite, each with its state
  prefills,      \* per payload written, how many forms it has prefilled (history)
  syncStore,     \* chrome.storage.sync, key "sites"
  migrated,      \* chrome.storage.local, key "migrated_to_local_v1"
  copies         \* how often sync sites were copied into the local store (history)

vars == <<store, popupOpen, popupSites, optOpen, optSites, formMode, editingIndex,
          formName, formUrl, formKey, callerSites, last,
          pendingSite, pages, prefills, syncStore, migrated, copies>>

pendingVars == <<pendingSite, pages, prefills>>
migrationVars == <<syncStore, migrated, copies>>

formVars == <<formMode, editingIndex, formName, formUrl, formKey>>
popupVars == <<popupOpen, popupSites>>
optVars == <<optOpen, optSites, formMode, editingIndex, formName, formUrl, formKey>>

NoIndex == -1

\* the record kept in last
Op(surface, op, site, index, base, before, out) ==
  [surface |-> surface, op |-> op, site |-> site, index |-> index, base |-> base,
   before |-> before, result |-> out.result, sites |-> out.sites, write |-> out.write]

NoSite == Site(<<>>, <<>>, <<>>)

\* the value of last after a step that is not an operation on the registry
NoOp == Op("none", "none", NoSite, NoIndex, <<>>, Absent, Outcome("none", <<>>, "none"))

\* a write that keeps the entries the store held and adds the new ones
StoreAfterMerge(out) ==
  IF out.write # "ok" THEN store
  ELSE IF store.kind # "array" THEN saveSites(out.sites)
  ELSE Stored(store.items
                \o SelectSeq(Serialize(out.sites), LAMBDA x : x \notin Range(store.items)))

\* PendingSitePayload (sites.ts lines 9-13) as stored under "pendingSite";
\* gen numbers the writes of the context menu and is not part of the payload
Payload(n, u, k, g) == [name |-> n, url |-> u, preferredKey |-> k, gen |-> g]

\* the key "pendingSite" is absent
NoPending == Payload(<<>>, <<>>, NoPreferred, 0)

\* the form state of options/App.tsx (lines 33-37)
Form(mode, index, n, u, k) ==
  [formMode |-> mode, editingIndex |-> index, formName |-> n, formUrl |-> u, formKey |-> k]

\* the form as resetFormState leaves it, which is also its initial state
EmptyForm == Form("add", NoIndex, <<>>, <<>>, <<>>)

\* an options page: where refreshSites stands ("closed", "loaded" after
\* loadSites, "read" after the get of loadPendingSite, "done"), the snapshot
\* it loaded, the payload it read, its form, and whether loadPendingSite
\* filled the form
Page(pc, sites, pending, form, prefilled) ==
  [pc |-> pc, sites |-> sites, pending |-> pending, form |-> form, prefilled |-> prefilled]

ClosedPage == Page("closed", <<>>, NoPending, EmptyForm, FALSE)

\* the options pages that can be open at the same time
PageIds == {1, 2}

\* the store after an operation with outcome out
StoreAfter(out) == IF out.write = "ok" THEN saveSites(out.sites) ELSE store

(***************************************************************************)
(* Inputs                                                                   *)
(***************************************************************************)
S_Example == <<"E", "x", "a", "m", "p", "l", "e">>
S_Bad == <<"B", "a", "d">>
S_Bang == <<"B", "a", "n", "g">>
U_google_com == <<"g", "o", "o", "g", "l", "e", ".", "c", "o", "m">>
U_example_com == <<"e", "x", "a", "m", "p", "l", "e", ".", "c", "o", "m">>
U_https_example_com == <<"h", "t", "t", "p", "s", ":", "/", "/", "e", "x", "a", "m", "p", "l", "e", ".", "c", "o", "m">>
U_a_b == <<"a", " ", "b">>

\* what a user types into the three fields of the options form
FormInputs ==
  { Site(S_Google, U_google_com \o <<" ">>, <<" ", "g">>),
    Site(S_Example, U_example_com, <<"e">>),
    Site(S_Bad, U_a_b, <<"g">>),
    Site(S_Bang, U_example_com, <<"!">>),
    Site(<<" ">>, U_example_com, <<"g">>) }

\* the site argument of a direct call of addSite
RawSites ==
  { Site(S_Google, U_google_com, <<"g">>),
    Site(S_Example, U_example_com, <<"e">>),
    Site(S_Google, U_https_google_com, <<"g">>),
    Site(S_Example, U_https_example_com, <<"e">>),
    Site(S_Bad, U_a_b, <<"G">>),
    Site(S_Example, U_https_example_com, <<"G">>),
    Site(S_Bang, U_https_example_com, <<" ", "g">>) }

\* the files a user picks for import, as JSON.parse reads them
ImportDocs ==
  { NotJson,
    JsonArray(<<>>),
    JsonOther,
    JsonArray(<<Site(S_Google, U_https_google_com, <<"g">>),
                Site(S_Bad, U_a_b, <<"e">>)>>),
    JsonObjectWithSites(<<Site(S_Example, U_https_example_com, <<"e">>),
                          Null,
                          Site(S_Google, U_https_google_com, <<"E">>)>>) }

\* the index argument of a direct call of removeSiteByIndex
FarIndex == 99
RawIndices == (-1..MaxSites) \cup {FarIndex}

(***************************************************************************)
(* Initial state: nothing is mounted; the store is as the installation left *)
(* it (the default registry), still empty, or holds a foreign value.        *)
(***************************************************************************)
\* no surface is mounted and nothing has been done yet
Unmounted ==
  /\ popupOpen = FALSE
  /\ popupSites = <<>>
  /\ optOpen = FALSE
  /\ optSites = <<>>
  /\ formMode = "add"
  /\ editingIndex = NoIndex
  /\ formName = <<>>
  /\ formUrl = <<>>
  /\ formKey = <<>>
  /\ callerSites = <<>>
  /\ last = NoOp

\* no proposed site is waiting and no options page is running loadPendingSite
NothingPending ==
  /\ pendingSite = NoPending
  /\ pages = [p \in PageIds |-> ClosedPage]
  /\ prefills = <<>>

\* the install event has run: the migration flag is set, nothing is left in
\* the sync area
Installed ==
  /\ syncStore = Absent
  /\ migrated = TRUE
  /\ copies = 0

Init ==
  /\ store \in {Stored(DEFAULT_SITES), Absent, NotAnArray}
  /\ Unmounted
  /\ NothingPending
  /\ Installed

\* resetFormState
resetFormState ==
  /\ formMode' = "add"
  /\ editingIndex' = NoIndex
  /\ formName' = <<>>
  /\ formUrl' = <<>>
  /\ formKey' = <<>>

\* a page whose render reads a field of undefined is torn down by React: it
\* shows nothing and none of its handlers can be invoked any more
Renders(xs) == Undefined \notin Range(xs)

\* the indices a page renders a card for: Array.prototype.map skips empty slots
Rendered(xs) == {i \in 0..(Len(xs) - 1) : xs[i + 1] # EmptySlot}

(***************************************************************************)
(* popup/App.tsx                                                            *)
(***************************************************************************)
\* the mount effect: initialize (lines 41-47)
initialize ==
  /\ ~popupOpen
  /\ \E readOk \in BOOLEAN :
       LET loaded == loadSites(store, readOk)
       IN  /\ popupSites' = loaded
           /\ last' = Op("popup", "load", NoSite, NoIndex, <<>>, store,
                         Outcome(IF readOk THEN "success" ELSE "readFailed", loaded, "none"))
  /\ popupOpen' = TRUE
  /\ UNCHANGED <<store, optVars, callerSites, pendingVars, migrationVars>>

\* the popup is closed
PopupClose ==
  /\ popupOpen
  /\ popupOpen' = FALSE
  /\ popupSites' = <<>>
  /\ last' = NoOp
  /\ UNCHANGED <<store, optVars, callerSites, pendingVars, migrationVars>>

\* deleteSite (lines 99-109)
deleteSite ==
  /\ popupOpen
  /\ \E index \in Rendered(popupSites), saveOk \in BOOLEAN :
       LET out == removeSiteByIndex(index, popupSites, saveOk)
       IN  /\ store' = StoreAfter(out)
           /\ popupSites' = IF out.result = "success" THEN out.sites ELSE popupSites
           /\ last' = Op("popup", "remove", NoSite, index, popupSites, store, out)
  /\ UNCHANGED <<popupOpen, optVars, callerSites, pendingVars, migrationVars>>

(***************************************************************************)
(* options/App.tsx                                                          *)
(***************************************************************************)
\* the mount effect: refreshSites (lines 111-121).  Nothing is written under
\* "pendingSite" where this action is used, so loadPendingSite finds no
\* payload and returns; PageLoadSites to PageRemovePending below are the same
\* handler taken one storage call at a time.
refreshSites ==
  /\ ~optOpen
  /\ \E readOk \in BOOLEAN :
       LET loaded == loadSites(store, readOk)
       IN  /\ optSites' = loaded
           /\ last' = Op("options", "load", NoSite, NoIndex, <<>>, store,
                         Outcome(IF readOk THEN "success" ELSE "readFailed", loaded, "none"))
  /\ optOpen' = TRUE
  /\ UNCHANGED <<store, formVars, popupVars, callerSites, pendingVars, migrationVars>>

\* the options page is closed
OptionsClose ==
  /\ optOpen
  /\ optOpen' = FALSE
  /\ optSites' = <<>>
  /\ resetFormState
  /\ last' = NoOp
  /\ UNCHANGED <<store, popupVars, callerSites, pendingVars, migrationVars>>

\* handleDelete (lines 132-147)
handleDelete ==
  /\ optOpen /\ Renders(optSites)
  /\ \E index \in Rendered(optSites), saveOk \in BOOLEAN :
       LET out == removeSiteByIndex(index, optSites, saveOk)
       IN  /\ store' = StoreAfter(out)
           /\ last' = Op("options", "remove", NoSite, index, optSites, store, out)
           /\ IF out.result = "success"
                THEN /\ optSites' = out.sites
                     /\ IF editingIndex = index
                          THEN resetFormState
                          ELSE UNCHANGED formVars
                ELSE UNCHANGED <<optSites, formVars>>
  /\ UNCHANGED <<optOpen, popupVars, callerSites, pendingVars, migrationVars>>

\* handleEdit (lines 217-227)
handleEdit ==
  /\ optOpen /\ Renders(optSites)
  /\ \E index \in Rendered(optSites) :
       /\ formMode' = "edit"
       /\ editingIndex' = index
       /\ formName' = optSites[index + 1].name
       /\ formUrl' = optSites[index + 1].url
       /\ formKey' = optSites[index + 1].key
  /\ last' = NoOp
  /\ UNCHANGED <<store, optOpen, optSites, popupVars, callerSites, pendingVars, migrationVars>>

\* handleCancelEdit (lines 229-231); the button exists in edit mode only
handleCancelEdit ==
  /\ optOpen /\ Renders(optSites)
  /\ formMode = "edit"
  /\ resetFormState
  /\ last' = NoOp
  /\ UNCHANGED <<store, optOpen, optSites, popupVars, callerSites, pendingVars, migrationVars>>

\* handleFormSubmit (lines 149-215); the fields hold what handleEdit put
\* there or what the user typed over it
handleFormSubmit ==
  /\ optOpen /\ Renders(optSites)
  /\ \E typed \in FormInputs \cup {Site(formName, formUrl, formKey)}, saveOk \in BOOLEAN :
       LET site == FormSite(typed.name, typed.url, typed.key)
           isEdit == formMode = "edit" /\ editingIndex # NoIndex
           out == IF ~FieldsFilled(site) THEN Outcome("FillAllFields", <<>>, "none")
                  ELSE IF isEdit THEN handleFormSubmitEdit(editingIndex, site, optSites, saveOk)
                  ELSE addSite(site, optSites, saveOk)
       IN  /\ ~isEdit => Len(optSites) < MaxSites
           /\ store' = StoreAfter(out)
           /\ last' = Op("options",
                         IF ~FieldsFilled(site) THEN "submit" ELSE IF isEdit THEN "edit" ELSE "add",
                         site, editingIndex, optSites, store, out)
           /\ IF out.result = "success"
                THEN optSites' = out.sites /\ resetFormState
                ELSE UNCHANGED <<optSites, formVars>>
  /\ UNCHANGED <<optOpen, popupVars, callerSites, pendingVars, migrationVars>>

\* handleImportChange (lines 268-295)
handleImportChange ==
  /\ optOpen /\ Renders(optSites)
  /\ \E doc \in ImportDocs, saveOk \in BOOLEAN :
       LET out == importSitesFromJson(doc, saveOk)
       IN  /\ store' = StoreAfter(out)
           /\ last' = Op("options", "import", NoSite, NoIndex, optSites, store, out)
           /\ IF out.result = "success"
                THEN optSites' = out.sites /\ resetFormState
                ELSE UNCHANGED <<optSites, formVars>>
  /\ UNCHANGED <<optOpen, popupVars, callerSites, pendingVars, migrationVars>>

Next ==
  \/ initialize
  \/ PopupClose
  \/ deleteSite
  \/ refreshSites
  \/ OptionsClose
  \/ handleDelete
  \/ handleEdit
  \/ handleCancelEdit
  \/ handleFormSubmit
  \/ handleImportChange

Spec == Init /\ [][Next]_vars

(***************************************************************************)
(* Direct calls of the functions exported by shared/sites.ts, by a caller   *)
(* that passes the snapshot it holds and keeps the sequence it gets back.   *)
(***************************************************************************)
CallLoadSites ==
  /\ \E readOk \in BOOLEAN :
       LET loaded == loadSites(store, readOk)
       IN  /\ callerSites' = loaded
           /\ last' = Op("caller", "load", NoSite, NoIndex, callerSites, store,
                         Outcome(IF readOk THEN "success" ELSE "readFailed", loaded, "none"))
  /\ UNCHANGED <<store, popupVars, optVars, pendingVars, migrationVars>>

CallAddSite ==
  /\ Len(callerSites) < MaxSites
  /\ \E site \in RawSites, saveOk \in BOOLEAN :
       LET out == addSite(site, callerSites, saveOk)
       IN  /\ store' = StoreAfter(out)
           /\ callerSites' = IF out.result = "success" THEN out.sites ELSE callerSites
           /\ last' = Op("caller", "add", site, NoIndex, callerSites, store, out)
  /\ UNCHANGED <<popupVars, optVars, pendingVars, migrationVars>>

CallRemoveSiteByIndex ==
  /\ \E index \in RawIndices, saveOk \in BOOLEAN :
       LET out == removeSiteByIndex(index, callerSites, saveOk)
       IN  /\ store' = StoreAfter(out)
           /\ callerSites' = IF out.result = "success" THEN out.sites ELSE callerSites
           /\ last' = Op("caller", "remove", NoSite, index, callerSites, store, out)
  /\ UNCHANGED <<popupVars, optVars, pendingVars, migrationVars>>

NextApi ==
  \/ CallLoadSites
  \/ CallAddSite
  \/ CallRemoveSiteByIndex

SpecApi == Init /\ [][NextApi]_vars

(***************************************************************************)
(* Direct calls of importSitesFromJson and exportSitesAsJson.  The site     *)
(* field of last holds the parsed document of an import.                    *)
(***************************************************************************)
S_51 == [i \in 1..51 |-> "a"]
U_ftp_example_com == <<"f", "t", "p", ":", "/", "/", "e", "x", "a", "m", "p", "l", "e", ".", "c", "o", "m">>

\* the texts passed to importSitesFromJson, as JSON.parse reads them:
\* "{not json", "[]", "42", "{}", {"sites": []}, and arrays of records
ImportTexts ==
  { NotJson,
    JsonArray(<<>>),
    JsonOther,
    JsonObject,
    JsonObjectWithSites(<<>>),
    JsonArray(<<Site(S_Bad, U_a_b, <<"e">>), Null>>),
    JsonArray(<<Site(S_Google, U_https_google_com \o <<" ">>, <<"g">>),
                Site(S_Bad, U_a_b, <<"e">>),
                Site(S_Example, U_https_example_com, <<" ", "e">>)>>),
    JsonObjectWithSites(<<Site(S_Example, U_https_example_com, <<"e">>),
                          Null,
                          Site(S_Google, U_https_google_com, <<"E">>),
                          Site(<<" ">> \o S_Bang, U_https_google_com, <<"b">>)>>),
    JsonArray(<<Site(<<" ">>, U_https_example_com, <<"b">>),
                Site(S_Google, U_https_google_com, <<"g">>)>>),
    JsonArray(<<Site(S_51, U_https_example_com, <<"5">>)>>),
    JsonArray(<<Site(S_Example, U_ftp_example_com, <<"f">>)>>) }

CallImportSitesFromJson ==
  /\ \E doc \in ImportTexts, saveOk \in BOOLEAN :
       LET out == importSitesFromJson(doc, saveOk)
       IN  /\ store' = StoreAfter(out)
           /\ callerSites' = IF out.result = "success" THEN out.sites ELSE callerSites
           /\ last' = Op("caller", "import", doc, NoIndex, callerSites, store, out)
  /\ UNCHANGED <<popupVars, optVars, pendingVars, migrationVars>>

CallExportSitesAsJson ==
  /\ \E readOk \in BOOLEAN :
       LET doc == exportSitesAsJson(store, readOk)
       IN  last' = Op("caller", "export", doc, NoIndex, callerSites, store,
                      Outcome(IF readOk THEN "success" ELSE "readFailed", doc.sites, "none"))
  /\ UNCHANGED <<store, callerSites, popupVars, optVars, pendingVars, migrationVars>>

\* importSitesFromJson(await exportSitesAsJson()): the text of the export the
\* last step made is imported
CallImportExported ==
  /\ last.surface = "caller" /\ last.op = "export"
  /\ \E saveOk \in BOOLEAN :
       LET doc == last.site
           out == importSitesFromJson(doc, saveOk)
       IN  /\ store' = StoreAfter(out)
           /\ callerSites' = IF out.result = "success" THEN out.sites ELSE callerSites
           /\ last' = Op("caller", "reimport", doc, NoIndex, doc.sites, store, out)
  /\ UNCHANGED <<popupVars, optVars, pendingVars, migrationVars>>

NextImport ==
  \/ CallImportSitesFromJson
  \/ CallExportSitesAsJson
  \/ CallImportExported

SpecImport == Init /\ [][NextImport]_vars

(***************************************************************************)
(* Direct calls of upsertSite, which reads the list from the store itself;  *)
(* the base field of last holds the list it read.                           *)
(***************************************************************************)
\* the site argument of a direct call of upsertSite
UpsertSites ==
  RawSites \cup { Site(S_Bang, U_https_example_com, <<"b">>),
                  Site(S_Bang, U_https_google_com, <<" ", "e">>) }

CallUpsertSite ==
  /\ \E site \in UpsertSites, readOk \in BOOLEAN, saveOk \in BOOLEAN :
       \E out \in {upsertSite(site, store, readOk, saveOk)} :
           /\ store' = StoreAfter(out)
           /\ callerSites' = IF out.result = "threw" THEN callerSites ELSE out.sites
           /\ last' = Op("caller", "upsert", site, NoIndex, loadSites(store, readOk),
                         store, out)
  /\ UNCHANGED <<popupVars, optVars, pendingVars, migrationVars>>

NextUpsert ==
  \/ CallUpsertSite
  \/ CallRemoveSiteByIndex

SpecUpsert == Init /\ [][NextUpsert]_vars

(***************************************************************************)
(* The pure functions of shared/sites.ts applied to untrusted values.  The  *)
(* site field of last holds the argument, sites or result what was returned.*)
(***************************************************************************)
U_mailto_a == <<"m", "a", "i", "l", "t", "o", ":", "a">>
U_https_a_b == <<"h", "t", "t", "p", "s", ":", "/", "/", "a", " ", "b">>

RawNames == {S_Google, <<" ">> \o S_Bang \o <<" ">>, <<" ">>, S_51, <<>>, NotAString}
RawUrls == {U_https_google_com, <<" ">> \o U_https_example_com, U_google_com,
            U_ftp_example_com, U_mailto_a, U_a_b, U_https_a_b, <<>>, NotAString}
RawKeys == {<<"g">>, <<"G">>, <<" ", "e">>, <<"5">>, <<"!">>, <<"a", "b">>, <<>>, NotAString}

\* the values passed to sanitizeSite
RawRecords ==
  {Site(n, u, k) : n \in RawNames, u \in RawUrls, k \in RawKeys} \cup {Null, Undefined}

\* the entries of the arrays passed to sanitizeSiteList
ListRecords ==
  { Site(S_Google, U_https_google_com, <<"g">>),
    Site(S_Example, U_https_example_com, <<"G">>),
    Site(S_Bad, U_a_b, <<"e">>),
    Site(S_Example, <<" ">> \o U_https_example_com, <<" ", "e">>),
    Null }

\* longest array passed to sanitizeSiteList
MaxList == 3

\* the values passed to sanitizeSiteList: arrays and values that are no array
RawLists ==
  {JsonOther, JsonObject}
    \cup {JsonArray(xs) : xs \in UNION {[1..n -> ListRecords] : n \in 0..MaxList}}

ApplySanitizeSite ==
  /\ \E r \in RawRecords :
       LET s == sanitizeSite(r)
       IN  last' = Op("pure", "sanitizeSite", r, NoIndex, <<>>, store,
                      IF s = Null THEN Outcome("Invalid", <<>>, "none")
                                  ELSE Outcome("success", <<s>>, "none"))
  /\ UNCHANGED <<store, callerSites, popupVars, optVars, pendingVars, migrationVars>>

\* sanitizeSite(sanitizeSite(r)): the Site the last step returned is
\* sanitised again
ApplySanitizeSiteAgain ==
  /\ last.surface = "pure" /\ last.op = "sanitizeSite" /\ last.result = "success"
  /\ LET r == last.sites[1]
         s == sanitizeSite(r)
     IN  last' = Op("pure", "resanitize", r, NoIndex, <<>>, store,
                    IF s = Null THEN Outcome("Invalid", <<>>, "none")
                                ELSE Outcome("success", <<s>>, "none"))
  /\ UNCHANGED <<store, callerSites, popupVars, optVars, pendingVars, migrationVars>>

ApplySanitizeSiteList ==
  /\ \E value \in RawLists :
       last' = Op("pure", "sanitizeSiteList", value, NoIndex, <<>>, store,
                  Outcome("success", sanitizeSiteList(value), "none"))
  /\ UNCHANGED <<store, callerSites, popupVars, optVars, pendingVars, migrationVars>>

\* a list of Sites with the given keys
KeyedSites(keys) == [i \in 1..Len(keys) |-> Site(S_Example, U_https_example_com, <<keys[i]>>)]

\* the existing lists and the preferred keys passed to generateKey
ExistingLists ==
  { KeyedSites(<<>>),
    KeyedSites(<<"A">>),
    KeyedSites(<<"A", "B">>),
    KeyedSites(<<"a", "b">>),
    KeyedSites(<<"B", "9">>),
    KeyedSites(UpperAlpha),
    KeyedSites(SelectSeq(VALID_KEYS, LAMBDA k : k # "C")),
    KeyedSites(SelectSeq(VALID_KEYS, LAMBDA k : k # "9")),
    KeyedSites(Digits \o LowerAlpha),
    KeyedSites(VALID_KEYS) }

PreferredKeys ==
  {NoPreferred, <<>>, <<"A">>, <<"a">>, <<"C">>, <<"9">>, <<" ", "b", " ">>,
   <<"!">>, <<"a", "b">>, <<" ">>}

ApplyGenerateKey ==
  /\ \E existing \in ExistingLists, preferred \in PreferredKeys :
       last' = Op("pure", "generateKey", preferred, NoIndex, existing, store,
                  Outcome(generateKey(existing, preferred), <<>>, "none"))
  /\ UNCHANGED <<store, callerSites, popupVars, optVars, pendingVars, migrationVars>>

NextPure ==
  \/ ApplySanitizeSite
  \/ ApplySanitizeSiteAgain
  \/ ApplySanitizeSiteList
  \/ ApplyGenerateKey

SpecPure == Init /\ [][NextPure]_vars

(***************************************************************************)
(* The proposed site: background/index.ts writes it under "pendingSite"     *)
(* when the context menu is clicked, options/App.tsx reads and removes it   *)
(* on mount.  Every await of refreshSites and loadPendingSite is a point    *)
(* where another page or the background script can run, so each options     *)
(* page advances one storage call at a time.                                *)
(***************************************************************************)
\* the parts of an http(s) URL as new URL(url) exposes them.  The inputs
\* below carry no credentials, port or dot segments, so only the lower-casing
\* of scheme and host and the "/" given to an empty path are modelled.
UrlProtocol(url) ==
  LET t == trim(url)
  IN  toLowerCase(SubSeq(t, 1, FirstIn(t, {":"})))

UrlAfterSlashes(url) ==
  LET t == trim(url)
  IN  DropLeading(SubSeq(t, FirstIn(t, {":"}) + 1, Len(t)), {"/", "\\"})

\* URL.hostname
UrlHostname(url) ==
  LET rest == UrlAfterSlashes(url)
      e == FirstIn(rest, {"/", "?", "#", "\\"})
  IN  toLowerCase(IF e = 0 THEN rest ELSE SubSeq(rest, 1, e - 1))

\* URL.href
UrlHref(url) ==
  LET rest == UrlAfterSlashes(url)
      e == FirstIn(rest, {"/", "?", "#", "\\"})
      tail == IF e = 0 THEN <<>> ELSE SubSeq(rest, e, Len(rest))
  IN  UrlProtocol(url) \o <<"/", "/">> \o UrlHostname(url)
        \o (IF tail = <<>> \/ tail[1] \in {"?", "#"} THEN <<"/">> ELSE <<>>)
        \o [i \in 1..Len(tail) |-> IF tail[i] = "\\" THEN "/" ELSE tail[i]]

\* extractPreferredKey (lines 72-80), NoPreferred for undefined
WWW_PREFIX == <<"w", "w", "w", ".">>

extractPreferredKey(url) ==
  LET full == UrlHostname(url)
      hostname == IF StartsWith(full, WWW_PREFIX)
                    THEN SubSeq(full, Len(WWW_PREFIX) + 1, Len(full))
                    ELSE full
  IN  IF hostname = <<>> THEN NoPreferred
      ELSE IF ToUpperChar(hostname[1]) \in ValidKeySet
             THEN <<ToUpperChar(hostname[1])>>
             ELSE NoPreferred

\* tab.title is missing
NoTitle == NotAString

\* handleContextMenuClick (lines 82-126) up to the write: the payload it
\* builds, NoPending when it returns early; existingSites is what its
\* loadSites returns
ContextMenuPayload(rawUrlGiven, title, existingSites, gen) ==
  LET rawUrl == trim(rawUrlGiven)
  IN  IF rawUrl = <<>> THEN NoPending
      ELSE IF ~UrlParses(rawUrl) THEN NoPending
      ELSE IF UrlProtocol(rawUrl) \notin {<<"h", "t", "t", "p", ":">>,
                                          <<"h", "t", "t", "p", "s", ":">>}
             THEN NoPending
      ELSE LET preferredKey == extractPreferredKey(rawUrl)
               availableKey == generateKey(existingSites, preferredKey)
               siteTitle == IF title # NoTitle /\ trim(title) # <<>>
                              THEN trim(title) ELSE UrlHostname(rawUrl)
           IN  Payload(siteTitle, UrlHref(rawUrl),
                       IF availableKey # NoKey THEN availableKey ELSE preferredKey, gen)

\* currentSites.findIndex((site) => site.url === normalizedUrl), counted from
\* 0, -1 when there is none
FindIndexUrl(currentSites, normalizedUrl) ==
  IF \E i \in 1..Len(currentSites) : currentSites[i].url = normalizedUrl
    THEN (CHOOSE i \in 1..Len(currentSites) :
            /\ currentSites[i].url = normalizedUrl
            /\ \A j \in 1..(i - 1) : currentSites[j].url # normalizedUrl) - 1
    ELSE -1

\* loadPendingSite filling the add form whether or not the url is registered
loadPendingSiteAlwaysAdd(currentSites, pending) ==
  LET normalizedUrl == IF pending.url # <<>> THEN normalizeUrl(pending.url) ELSE <<>>
  IN  CHOOSE form \in
        { Form("add", NoIndex, pending.name, normalizedUrl,
               IF availableKey # NoKey THEN availableKey
               ELSE IF pending.preferredKey # NoPreferred THEN pending.preferredKey
               ELSE <<>>) :
            availableKey \in {generateKey(currentSites, pending.preferredKey)} } : TRUE

\* loadPendingSite (lines 68-92) after the payload was read and removed: the
\* form it sets
loadPendingSite(currentSites, pending) ==
  LET normalizedUrl == IF pending.url # <<>> THEN normalizeUrl(pending.url) ELSE <<>>
      duplicateIndex == IF normalizedUrl # <<>>
                          THEN FindIndexUrl(currentSites, normalizedUrl) ELSE -1
  IN  IF duplicateIndex # -1
        THEN LET existingSite == currentSites[duplicateIndex + 1]
             IN  Form("edit", duplicateIndex, existingSite.name, existingSite.url,
                      existingSite.key)
        ELSE CHOOSE form \in
               { Form("add", NoIndex, pending.name, normalizedUrl,
                      IF availableKey # NoKey THEN availableKey
                      ELSE IF pending.preferredKey # NoPreferred THEN pending.preferredKey
                      ELSE <<>>) :
                   availableKey \in {generateKey(currentSites, pending.preferredKey)} } : TRUE

\* the urls and titles of the pages and links the context menu is used on
U_https_example_com_slash == U_https_example_com \o <<"/">>
U_HTTPS_WWW_Google_com == <<"H", "T", "T", "P", "S", ":", "/", "/", "W", "W", "W", ".", "G", "o", "o", "g", "l", "e", ".", "c", "o", "m">>
U_https_dash_a == <<"h", "t", "t", "p", "s", ":", "/", "/", "-", "a", ".", "b">>

\* the url of the link or page and the title of the tab
ClickTargets ==
  { <<U_https_example_com, <<" ">> \o S_Example>>,
    <<<<" ">> \o U_https_example_com_slash, NoTitle>>,
    <<U_HTTPS_WWW_Google_com, <<" ">> >>,
    <<U_https_dash_a, NoTitle>>,
    <<U_ftp_example_com, S_Example>>,
    <<U_a_b, S_Example>>,
    <<<<" ">>, S_Example>> }

\* the context menu is used at most MaxClicks times
MaxClicks == 2

\* the registries the context menu and the options pages find: the default
\* one, one that holds the url the context menu proposes, one with all 36
\* keys in use, and none
PendingStores ==
  { Stored(DEFAULT_SITES),
    Stored(<<Site(S_Google, U_https_google_com, <<"G">>),
             Site(S_Example, U_https_example_com_slash, <<"E">>)>>),
    Stored(KeyedSites(VALID_KEYS)),
    Absent }

InitPending ==
  /\ store \in PendingStores
  /\ Unmounted
  /\ NothingPending
  /\ Installed

\* handleContextMenuClick (lines 82-126)
handleContextMenuClick ==
  /\ Len(prefills) < MaxClicks
  /\ \E readOk \in BOOLEAN, saveOk \in BOOLEAN :
     \E existingSites \in {loadSites(store, readOk)} :
     \E target \in ClickTargets :
       \E payload \in {ContextMenuPayload(target[1], target[2], existingSites,
                                          Len(prefills) + 1)} :
         /\ IF payload # NoPending /\ saveOk
              THEN /\ pendingSite' = payload
                   /\ prefills' = Append(prefills, 0)
              ELSE UNCHANGED <<pendingSite, prefills>>
         /\ last' = NoOp
  /\ UNCHANGED <<store, popupVars, optVars, callerSites, pages, migrationVars>>

\* refreshSites (lines 111-117) of options page p up to its first await:
\* loadSites
PageLoadSites(p) ==
  /\ pages[p].pc = "closed"
  /\ \E readOk \in BOOLEAN :
       \E loaded \in {loadSites(store, readOk)} :
         pages' = [pages EXCEPT ![p] = Page("loaded", loaded, NoPending, EmptyForm, FALSE)]
  /\ last' = NoOp
  /\ UNCHANGED <<store, popupVars, optVars, callerSites, pendingSite, prefills, migrationVars>>

\* loadPendingSite, lines 60-64: the get of "pendingSite"; a rejected get is
\* caught and ends loadPendingSite
PageGetPending(p) ==
  /\ pages[p].pc = "loaded"
  /\ \E readOk \in BOOLEAN :
       pages' = [pages EXCEPT ![p] =
                   IF readOk /\ pendingSite # NoPending
                     THEN [@ EXCEPT !.pc = "read", !.pending = pendingSite]
                     ELSE [@ EXCEPT !.pc = "done"]]
  /\ last' = NoOp
  /\ UNCHANGED <<store, popupVars, optVars, callerSites, pendingSite, prefills, migrationVars>>

\* loadPendingSite, lines 66-105: the remove of "pendingSite" and, when it
\* succeeded, the filling of the form; a rejected remove is caught
PageRemovePending(p) ==
  /\ pages[p].pc = "read"
  /\ \E removeOk \in BOOLEAN :
       IF removeOk
         THEN /\ pendingSite' = NoPending
              /\ \E form \in {loadPendingSite(pages[p].sites, pages[p].pending)} :
                   pages' = [pages EXCEPT ![p] =
                               [@ EXCEPT !.pc = "done", !.form = form, !.prefilled = TRUE]]
              /\ prefills' = [prefills EXCEPT ![pages[p].pending.gen] = @ + 1]
         ELSE /\ pages' = [pages EXCEPT ![p] = [@ EXCEPT !.pc = "done"]]
              /\ UNCHANGED <<pendingSite, prefills>>
  /\ last' = NoOp
  /\ UNCHANGED <<store, popupVars, optVars, callerSites, migrationVars>>

\* options page p is closed
PageClose(p) ==
  /\ pages[p].pc # "closed"
  /\ pages' = [pages EXCEPT ![p] = ClosedPage]
  /\ last' = NoOp
  /\ UNCHANGED <<store, popupVars, optVars, callerSites, pendingSite, prefills, migrationVars>>

NextPending ==
  \/ handleContextMenuClick
  \/ \E p \in PageIds : PageLoadSites(p)
  \/ \E p \in PageIds : PageGetPending(p)
  \/ \E p \in PageIds : PageRemovePending(p)
  \/ \E p \in PageIds : PageClose(p)

SpecPending == InitPending /\ [][NextPending]_vars

(***************************************************************************)
(* background/index.ts: the install/update event.  The older versions of    *)
(* the extension (popup.js) kept the registry in chrome.storage.sync; its   *)
(* addSite prefixed "https://" to a url without a scheme and stored it      *)
(* without parsing it, and kept keys distinct.                              *)
(***************************************************************************)
\* what the older versions can have left in the sync area
LegacySites ==
  <<Site(S_Google, U_https_google_com, <<"G">>),
    Site(S_Example, U_https_example_com, <<"E">>)>>

LegacySitesUnparsable ==
  <<Site(S_Google, U_https_google_com, <<"G">>),
    Site(S_Bad, U_https_a_b, <<"B">>)>>

SyncValues ==
  {Absent, NotAnArray, Stored(<<>>), Stored(LegacySites), Stored(LegacySitesUnparsable)}

\* the storage call of ensureDefaultSites that is rejected, if one is
InstallFailures ==
  {"none", "getFlag", "getSync", "setSites", "setFlag", "getSites", "setDefault"}

\* what the event did: the local store and flag it leaves, whether it copied
\* the sync sites and whether it wrote DEFAULT_SITES
Installation(st, flag, copied, defaulted) ==
  [store |-> st, migrated |-> flag, copied |-> copied, defaulted |-> defaulted]

\* migrateFromSyncToLocal (lines 12-33); a rejected call ends it in the catch
migrateFromSyncToLocal(st, flag, sync, fail) ==
  IF fail = "getFlag" THEN Installation(st, flag, FALSE, FALSE)
  ELSE IF flag THEN Installation(st, flag, FALSE, FALSE)
  ELSE IF fail = "getSync" THEN Installation(st, flag, FALSE, FALSE)
  ELSE LET copy == sync.kind = "array" /\ Len(sync.items) > 0
       IN  IF copy /\ fail = "setSites" THEN Installation(st, flag, FALSE, FALSE)
           ELSE Installation(IF copy THEN Stored(sync.items) ELSE st,
                             fail # "setFlag", copy, FALSE)

\* ensureDefaultSites (lines 35-47)
ensureDefaultSites(st, flag, sync, fail) ==
  LET m == migrateFromSyncToLocal(st, flag, sync, fail)
  IN  IF fail = "getSites" THEN m
      ELSE IF m.store.kind # "absent" THEN m
      ELSE IF fail = "setDefault" THEN m
      ELSE Installation(Stored(DEFAULT_SITES), m.migrated, m.copied, TRUE)

\* the sync sites are copied at most MaxCopies times
MaxCopies == 2

\* a fresh installation or an update from an older version: the local area
\* is empty
InitBackground ==
  /\ store = Absent
  /\ Unmounted
  /\ NothingPending
  /\ syncStore \in SyncValues
  /\ migrated = FALSE
  /\ copies = 0

\* the onInstalled listener (lines 128-132)
onInstalled ==
  /\ copies < MaxCopies
  /\ \E fail \in InstallFailures :
       \E out \in {ensureDefaultSites(store, migrated, syncStore, fail)} :
         /\ store' = out.store
         /\ migrated' = out.migrated
         /\ copies' = IF out.copied THEN copies + 1 ELSE copies
         /\ last' = Op("background", "install", NoSite, NoIndex, <<>>, store,
                       Outcome(IF out.copied THEN "migrated"
                               ELSE IF out.defaulted THEN "default" ELSE "none",
                               out.store.items,
                               IF out.copied \/ out.defaulted THEN "ok" ELSE "none"))
  /\ UNCHANGED <<syncStore, popupVars, optVars, callerSites, pendingVars>>

NextBackground ==
  \/ onInstalled
  \/ CallLoadSites
  \/ CallAddSite
  \/ CallRemoveSiteByIndex

SpecBackground == InitBackground /\ [][NextBackground]_vars

(***************************************************************************)
(* Properties                                                               *)
(***************************************************************************)
\* the Sites of xs, slots without a value left out
SitesOf(xs) == SelectSeq(xs, IsObject)

\* no two Sites of xs have the same key, compared without regard to case
KeysDistinct(xs) ==
  \A i, j \in 1..Len(xs) :
    (i # j /\ IsObject(xs[i]) /\ IsObject(xs[j]))
      => toUpperCase(xs[i].key) # toUpperCase(xs[j].key)

\* every slot of xs holds a Site
AllSites(xs) == \A i \in 1..Len(xs) : IsObject(xs[i])

\* the snapshot of the surface that performed the last operation
SurfaceSites ==
  IF last.surface = "popup" THEN popupSites
  ELSE IF last.surface = "options" THEN optSites
  ELSE callerSites

\* some entry of xs has the key k, compared without regard to case
HasKey(xs, k) == \E i \in 1..Len(xs) : toUpperCase(xs[i].key) = toUpperCase(k)

\* xs without the element of index i (0-based)
WithoutIndex(xs, i) ==
  [j \in 1..(Len(xs) - 1) |-> IF j <= i THEN xs[j] ELSE xs[j + 1]]

----------------------------------------------------------------------------
\* C1: in every reachable state of the surfaces, no snapshot held by the
\* popup or the options page and no sequence returned by a load, add, remove,
\* edit or import holds two Sites whose keys are equal without regard to case.
C1_KeyUniqueness ==
  /\ KeysDistinct(optSites)
  /\ KeysDistinct(popupSites)
  /\ KeysDistinct(last.sites)

\* an add, edit or import succeeded and left the options page with two Sites
\* or more
C1_Witness ==
  /\ last.surface = "options"
  /\ last.op \in {"add", "edit", "import"}
  /\ last.result = "success"
  /\ Len(SitesOf(optSites)) >= 2

----------------------------------------------------------------------------
\* C2: addSite(site, sites) fails with DuplicateKey whenever an entry of sites
\* has the key of site without regard to case, whatever the URL and also when
\* sanitizeSite would reject site.
C2_DuplicateKeyFirst ==
  (last.surface = "caller" /\ last.op = "add" /\ HasKey(last.base, last.site.key))
    => /\ last.result = "DuplicateKey"
       /\ last.write = "none"

\* an add of a site that is a duplicate and malformed at once was answered
\* with DuplicateKey
C2_Witness ==
  /\ last.surface = "caller"
  /\ last.op = "add"
  /\ HasKey(last.base, last.site.key)
  /\ sanitizeSite(last.site) = Null
  /\ last.result = "DuplicateKey"

----------------------------------------------------------------------------
\* C3: addSite of a site with a scheme-less url succeeds with https://
\* prefixed: {Google, google.com, g} added to [] gives [{Google,
\* https://google.com, G}], and {Example, example.com, e} added to the default
\* registry gives the entry {Example, https://example.com, E} in second place
\* (unless the store rejects the write).
C3_BareUrlAdded ==
  /\ (/\ last.surface = "caller" /\ last.op = "add"
      /\ last.site = Site(S_Google, U_google_com, <<"g">>)
      /\ last.base = <<>>
      /\ last.write # "failed")
       => /\ last.result = "success"
          /\ last.sites = <<Site(S_Google, U_https_google_com, <<"G">>)>>
  /\ (/\ last.surface = "caller" /\ last.op = "add"
      /\ last.site = Site(S_Example, U_example_com, <<"e">>)
      /\ last.base = DEFAULT_SITES
      /\ last.write # "failed")
       => /\ last.result = "success"
          /\ last.sites = DEFAULT_SITES \o <<Site(S_Example, U_https_example_com, <<"E">>)>>

----------------------------------------------------------------------------
\* C4 as stated: an add that fails with DuplicateKey or Invalid writes nothing
\* and leaves the persisted registry and the snapshot of the page as they
\* were, and every add ends in success or in one of these two failures.
C4_AddSuccessOrFailure ==
  (last.surface = "options" /\ last.op = "add")
    => /\ last.result \in {"success", "DuplicateKey", "Invalid"}
       /\ last.result \in {"DuplicateKey", "Invalid"}
            => (last.write = "none" /\ store = last.before /\ optSites = last.base)

\* C4 amended: every add ends in success, in DuplicateKey or Invalid, or in a
\* thrown error (the store rejected the write, or the snapshot holds a slot
\* without a Site); whenever it does not end in success no write reaches the
\* store and the persisted registry and the snapshot of the page are as they
\* were; a success returns the sequence the page then holds.
C4_NoPartialMutation ==
  (last.surface = "options" /\ last.op = "add")
    => /\ last.result \in {"success", "DuplicateKey", "Invalid", "threw"}
       /\ last.result # "success"
            => (last.write # "ok" /\ store = last.before /\ optSites = last.base)
       /\ last.result \in {"DuplicateKey", "Invalid"} => last.write = "none"
       /\ last.result = "threw" => (last.write = "failed" \/ ~AllSites(last.base))
       /\ last.result = "success" => (last.write = "ok" /\ optSites = last.sites)

\* an add on the options page was rejected as Invalid while the store held a
\* registry
C4_Witness ==
  /\ last.surface = "options"
  /\ last.op = "add"
  /\ last.result = "Invalid"
  /\ store.kind = "array"
  /\ Len(store.items) > 0

----------------------------------------------------------------------------
\* C5: a successful addSite(site, sites) returns a sequence one longer than
\* sites, whose first elements are those of sites in their order and whose
\* last element is sanitizeSite(site); the store holds that sequence.
C5_AddAppends ==
  (last.surface = "caller" /\ last.op = "add" /\ last.result = "success")
    => /\ Len(last.sites) = Len(last.base) + 1
       /\ \A i \in 1..Len(last.base) : last.sites[i] = last.base[i]
       /\ last.sites[Len(last.sites)] = sanitizeSite(last.site)
       /\ sanitizeSite(last.site) # Null
       /\ store = Stored(last.sites)
       /\ callerSites = last.sites

\* a site was added to a registry that already held two
C5_Witness ==
  /\ last.surface = "caller"
  /\ last.op = "add"
  /\ last.result = "success"
  /\ Len(last.base) = 2

----------------------------------------------------------------------------
\* C6: an edit whose site sanitizeSite rejects fails with Invalid and changes
\* neither the persisted registry nor the snapshot of the page.
C6_EditValidates ==
  (last.surface = "options" /\ last.op = "edit" /\ sanitizeSite(last.site) = Null)
    => /\ last.result = "Invalid"
       /\ store = last.before
       /\ optSites = last.base

----------------------------------------------------------------------------
\* C7: on a snapshot of Sites, the key check of an edit leaves out the edited
\* index: the edit fails with DuplicateKey exactly when an entry at another
\* index has the new key, an edit that keeps the key of the edited Site
\* succeeds (unless the store rejects the write), and on DuplicateKey nothing
\* is written.
C7_EditDuplicateCheck ==
  (last.surface = "options" /\ last.op = "edit" /\ AllSites(last.base))
    => LET other == \E i \in 1..Len(last.base) :
                      /\ i - 1 # last.index
                      /\ toUpperCase(last.base[i].key) = toUpperCase(last.site.key)
           keepsKey == /\ last.index < Len(last.base)
                       /\ toUpperCase(last.base[last.index + 1].key) = toUpperCase(last.site.key)
       IN  /\ last.result = "DuplicateKey" <=> other
           /\ keepsKey => (last.result = "success" \/ last.write = "failed")
           /\ last.result = "DuplicateKey"
                => (last.write = "none" /\ store = last.before /\ optSites = last.base)

\* an edit that kept the key of the edited Site, among two Sites or more,
\* succeeded
C7_Witness ==
  /\ last.surface = "options"
  /\ last.op = "edit"
  /\ last.result = "success"
  /\ AllSites(last.base)
  /\ Len(last.base) >= 2
  /\ last.index < Len(last.base)
  /\ last.base[last.index + 1].key = last.site.key

----------------------------------------------------------------------------
\* C8: removeSiteByIndex(index, sites) returns sites without the element at
\* index, the others in their order, when 0 <= index < |sites|, and a
\* sequence equal to sites for any other index; the store holds what it
\* returned.
C8_RemoveByIndex ==
  (last.surface = "caller" /\ last.op = "remove" /\ last.result = "success")
    => /\ IF 0 <= last.index /\ last.index < Len(last.base)
            THEN last.sites = WithoutIndex(last.base, last.index)
            ELSE last.sites = last.base
       /\ store = Stored(last.sites)
       /\ callerSites = last.sites

\* index 99 was removed from a registry of three
C8_Witness ==
  /\ last.surface = "caller"
  /\ last.op = "remove"
  /\ last.result = "success"
  /\ last.index = FarIndex
  /\ Len(last.base) = 3
  /\ Len(last.sites) = 3

----------------------------------------------------------------------------
\* the stored entries sanitizeSite accepts, each the first of its key, in
\* their order
FirstValidPerKey(items) ==
  LET Valid(i) == sanitizeSite(items[i]) # Null
      kept == {i \in 1..Len(items) :
                 /\ Valid(i)
                 /\ \A j \in 1..(i - 1) :
                      Valid(j) => sanitizeSite(items[j]).key # sanitizeSite(items[i]).key}
      Nth(k) == CHOOSE i \in kept : Cardinality({j \in kept : j <= i}) = k
  IN  [k \in 1..Cardinality(kept) |-> sanitizeSite(items[Nth(k)])]

\* C9: a load never returns an empty list: it returns the default Site alone
\* when the key is absent, the value is not an array, the array is empty or
\* all its entries are malformed, or the read fails; otherwise the sanitised
\* stored entries, the first of each key; every element passes sanitizeSite
\* and the keys are pairwise distinct.
C9_LoadNeverEmpty ==
  (last.op = "load" /\ last.surface \in {"popup", "options"})
    => LET st == last.before
           fallback == \/ last.result = "readFailed"
                       \/ st.kind # "array"
                       \/ \A i \in 1..Len(st.items) : sanitizeSite(st.items[i]) = Null
       IN  /\ last.result \in {"success", "readFailed"}
           /\ Len(last.sites) > 0
           /\ \A i \in 1..Len(last.sites) : sanitizeSite(last.sites[i]) = last.sites[i]
           /\ KeysDistinct(last.sites)
           /\ fallback => last.sites = DEFAULT_SITES
           /\ ~fallback => last.sites = FirstValidPerKey(st.items)
           /\ SurfaceSites = last.sites

\* a load found an array in which every entry is malformed
C9_Witness ==
  /\ last.op = "load"
  /\ last.surface \in {"popup", "options"}
  /\ last.result = "success"
  /\ last.before.kind = "array"
  /\ Len(last.before.items) > 0
  /\ \A i \in 1..Len(last.before.items) : sanitizeSite(last.before.items[i]) = Null
  /\ last.sites = DEFAULT_SITES

----------------------------------------------------------------------------
\* the sequence the last operation set out to produce
Attempted ==
  IF last.op = "add" THEN Append(last.base, sanitizeSite(last.site))
  ELSE IF last.op = "remove" THEN WithoutIndex(last.base, last.index)
  ELSE AssignAt(last.base, last.index, last.site)

\* C10 as stated: when the store rejects the write of an add, a remove or an
\* edit on a surface, the snapshot of the surface holds the attempted
\* mutation all the same, and the persisted registry keeps its value.
C10_SnapshotKeepsMutation ==
  (last.write = "failed" /\ last.op \in {"add", "remove", "edit"}
     /\ last.surface \in {"popup", "options"})
    => /\ SurfaceSites = Attempted
       /\ store = last.before

\* C10 amended: when the store rejects the write of an add, a remove or an
\* edit on a surface, the operation throws the rejection to its caller, the
\* snapshot of the surface is not updated and keeps the value it had, and the
\* persisted registry keeps its value.
C10_SaveFailureKeepsSnapshot ==
  (last.write = "failed" /\ last.op \in {"add", "remove", "edit"}
     /\ last.surface \in {"popup", "options"})
    => /\ last.result = "threw"
       /\ SurfaceSites = last.base
       /\ store = last.before

\* the write of a remove on a surface was rejected
C10_Witness ==
  /\ last.write = "failed"
  /\ last.op = "remove"
  /\ last.surface \in {"popup", "options"}
  /\ Len(last.base) >= 2

----------------------------------------------------------------------------
\* the array importSitesFromJson extracts from a parsed document: the array
\* itself, or the array under "sites"
Extracted(doc) ==
  IF doc.json = "array" \/ doc.hasSites THEN doc.sites ELSE <<>>

\* the last step was a call of importSitesFromJson
IsImport == last.surface = "caller" /\ last.op \in {"import", "reimport"}

\* C11: an import that succeeds leaves in the store exactly the sanitised,
\* deduplicated list of the extracted array, whatever the store held before,
\* and returns that list; an import that fails with ParseError or EmptyImport
\* leaves the store as it was.
C11_ImportOverwrites ==
  IsImport
    => /\ last.result \in {"success", "ParseError", "EmptyImport"}
       /\ last.result = "success"
            => /\ last.sites = sanitizeSiteList(JsonArray(Extracted(last.site)))
               /\ store = Stored(last.sites)
               /\ callerSites = last.sites
       /\ last.result # "success"
            => /\ store = last.before
               /\ last.write # "ok"
               /\ last.op = "import" => callerSites = last.base

\* an import succeeded over a store that held a Site with a key the imported
\* list does not have
C11_Witness ==
  /\ IsImport
  /\ last.op = "import"
  /\ last.result = "success"
  /\ last.before.kind = "array"
  /\ \E i \in 1..Len(last.before.items) :
       /\ IsObject(last.before.items[i])
       /\ ~HasKey(last.sites, last.before.items[i].key)

----------------------------------------------------------------------------
\* C12: an import fails with ParseError exactly when the text is not valid
\* JSON or the parsed value is neither an array nor an object with an array
\* under "sites", and with EmptyImport exactly when an array was extracted and
\* no record of it survives sanitising and deduplication; ParseError is
\* reported for no other cause, a rejected store write included.
C12_ImportFailureKinds ==
  IsImport
    => LET doc == last.site
           shapeOk == doc.json = "array" \/ doc.hasSites
           survivors == sanitizeSiteList(JsonArray(Extracted(doc)))
       IN  /\ last.result = "ParseError" <=> (doc.json = "invalid" \/ ~shapeOk)
           /\ last.result = "EmptyImport" <=> (shapeOk /\ Len(survivors) = 0)

----------------------------------------------------------------------------
\* C13: an export holds the list loadSites returns at that moment, which is
\* never empty, and importing the text of that export succeeds (unless the
\* store rejects the write) and returns, and leaves in the store, the same
\* Sites in the same order with the same name, url and key.
C13_RoundTrip ==
  /\ (last.surface = "caller" /\ last.op = "export")
       => /\ last.sites = loadSites(last.before, last.result = "success")
          /\ Len(last.sites) > 0
  /\ (last.surface = "caller" /\ last.op = "reimport" /\ last.write # "failed")
       => /\ last.result = "success"
          /\ last.sites = last.base
          /\ store = Stored(last.base)
          /\ callerSites = last.base

\* the export of a registry of two Sites or more was imported back
C13_Witness ==
  /\ last.surface = "caller"
  /\ last.op = "reimport"
  /\ last.result = "success"
  /\ last.before.kind = "array"
  /\ Len(last.before.items) >= 2
  /\ Len(last.sites) >= 2

----------------------------------------------------------------------------
\* C14: for an array, sanitizeSiteList returns the sanitised valid entries,
\* each the first of the array to carry its key, in their order, so no two of
\* the result have the same key without regard to case; for a value that is
\* not an array it returns the empty list.
C14_SanitizeListFirstWins ==
  (last.surface = "pure" /\ last.op = "sanitizeSiteList")
    => /\ last.result = "success"
       /\ last.site.json = "array" => last.sites = FirstValidPerKey(last.site.sites)
       /\ last.site.json # "array" => last.sites = <<>>
       /\ KeysDistinct(last.sites)
       /\ \A i \in 1..Len(last.sites) : last.sites[i].key = toUpperCase(last.sites[i].key)

\* an array in which a valid entry repeats the key of an earlier valid entry
\* was sanitised
C14_Witness ==
  /\ last.surface = "pure"
  /\ last.op = "sanitizeSiteList"
  /\ last.site.json = "array"
  /\ Len(MapSanitize(last.site.sites)) = 3
  /\ Len(last.sites) = 2

----------------------------------------------------------------------------
\* C15: sanitizeSite is idempotent: sanitising a Site that sanitizeSite
\* returned gives a Site again, with the same name, url and key.
C15_SanitizeIdempotent ==
  (last.surface = "pure" /\ last.op = "resanitize")
    => /\ last.result = "success"
       /\ last.sites = <<last.site>>

----------------------------------------------------------------------------
\* the scheme a url carries: the text before its first ":", lower-cased
SchemeOf(url) ==
  LET t == trim(url)
      c == FirstIn(t, {":"})
  IN  IF c > 1 THEN toLowerCase(SubSeq(t, 1, c - 1)) ELSE <<>>

\* url parses as it stands and its scheme is neither http nor https
UnsupportedScheme(url) ==
  /\ UrlParses(url)
  /\ SchemeOf(url) \notin {<<"h", "t", "t", "p">>, <<"h", "t", "t", "p", "s">>}

\* the three fields of r are strings
StringFields(r) ==
  IsObject(r) /\ IsString(r.name) /\ IsString(r.url) /\ IsString(r.key)

\* C16: sanitizeSite answers Invalid for every record whose url, with the
\* scheme normalised, does not parse as an absolute URL, and for every record
\* whose url carries a scheme other than http or https (ftp:, mailto:), which
\* is neither accepted nor rewritten.
C16_RejectsMalformedUrl ==
  (/\ last.surface = "pure" /\ last.op = "sanitizeSite"
   /\ StringFields(last.site)
   /\ ~UrlParses(normalizeUrl(last.site.url)) \/ UnsupportedScheme(last.site.url))
    => last.result = "Invalid"

----------------------------------------------------------------------------
\* s is a Site of the data model: a name of 1 to 50 characters, a url with
\* an explicit http:// or https:// scheme, a key of one character of A-Z0-9
WellFormedSite(s) ==
  /\ IsObject(s)
  /\ Len(s.name) >= 1 /\ Len(s.name) <= 50
  /\ \/ StartsWith(toLowerCase(s.url), HTTP_PREFIX)
     \/ StartsWith(toLowerCase(s.url), HTTPS_PREFIX)
  /\ Len(s.key) = 1 /\ s.key[1] \in ValidKeySet

\* C17: every Site that an import returns (each one returned by
\* sanitizeSite) and every Site written to the store is well formed: a
\* non-empty name of at most 50 characters, a url that starts with http:// or
\* https://, a key of one upper-case character of A-Z0-9.
C17_SitesWellFormed ==
  /\ IsImport => \A i \in 1..Len(last.sites) : WellFormedSite(last.sites[i])
  /\ store.kind = "array" => \A i \in 1..Len(store.items) : WellFormedSite(store.items[i])

----------------------------------------------------------------------------
\* the keys of xs, upper-cased
UsedKeys(xs) == {toUpperCase(xs[i].key) : i \in 1..Len(xs)}

\* the first character of A..Z, 0..9 whose key is not in used, NoKey when
\* there is none
FirstFree(used) ==
  LET free == {i \in 1..36 : <<(UpperAlpha \o Digits)[i]>> \notin used}
  IN  IF free = {} THEN NoKey
      ELSE <<(UpperAlpha \o Digits)[CHOOSE i \in free : \A j \in free : i <= j]>>

\* k is one character of A-Z0-9, in either case
LegalKey(k) == IsString(k) /\ Len(k) = 1 /\ ToUpperChar(k[1]) \in ValidKeySet

\* C18 as stated: generateKey returns the upper-cased preferred key when it
\* is supplied, is a legal key character and is not used in existing, and
\* otherwise the first character of A..Z, 0..9 that is not used; it returns
\* no key exactly when all 36 are used.
C18_GenerateKeyAsStated ==
  (last.surface = "pure" /\ last.op = "generateKey")
    => LET used == UsedKeys(last.base)
           preferred == last.site
       IN  /\ IF LegalKey(preferred) /\ toUpperCase(preferred) \notin used
                THEN last.result = toUpperCase(preferred)
                ELSE last.result = FirstFree(used)
           /\ last.result = NoKey <=> \A i \in 1..36 : <<VALID_KEYS[i]>> \in used

\* C18 amended: generateKey returns the preferred key trimmed and upper-cased
\* when it is supplied and, trimmed and upper-cased, is a legal key character
\* not used in existing; otherwise the first character of A..Z, 0..9 that is
\* not used; it returns no key exactly when all 36 are used, so a key it
\* returns is legal and not used; for [] it returns A and for [A, B] it
\* returns C when no key is preferred.
C18_GenerateKey ==
  (last.surface = "pure" /\ last.op = "generateKey")
    => LET used == UsedKeys(last.base)
           preferred == last.site
           normalized == IF IsString(preferred) THEN toUpperCase(trim(preferred)) ELSE <<>>
       IN  /\ IF LegalKey(normalized) /\ normalized \notin used
                THEN last.result = normalized
                ELSE last.result = FirstFree(used)
           /\ last.result = NoKey <=> \A i \in 1..36 : <<VALID_KEYS[i]>> \in used
           /\ last.result # NoKey => (LegalKey(last.result) /\ last.result \notin used)
           /\ (last.base = <<>> /\ preferred = NoPreferred) => last.result = <<"A">>
           /\ (last.base = KeyedSites(<<"A", "B">>) /\ preferred = NoPreferred)
                => last.result = <<"C">>

\* a preferred key was not used although it is legal, because it is taken,
\* and the scan passed the letters to return a digit
C18_Witness ==
  /\ last.surface = "pure"
  /\ last.op = "generateKey"
  /\ last.site = <<"a">>
  /\ Len(last.base) = 26
  /\ last.result = <<"0">>

----------------------------------------------------------------------------
\* C19 as stated: generateKey([{key: "A"}], "A") returns "C".
C19_TakenPreferredGivesC ==
  (/\ last.surface = "pure" /\ last.op = "generateKey"
   /\ last.base = KeyedSites(<<"A">>) /\ last.site = <<"A">>)
    => last.result = <<"C">>

\* C19 amended: generateKey([{key: "A"}], "A") returns "B": the preferred key
\* is taken, and the scan returns the first key that is not used.
C19_TakenPreferredGivesB ==
  (/\ last.surface = "pure" /\ last.op = "generateKey"
   /\ last.base = KeyedSites(<<"A">>) /\ last.site = <<"A">>)
    => last.result = <<"B">>

\* generateKey was called with the list [A] and the preferred key A
C19_Witness ==
  /\ last.surface = "pure"
  /\ last.op = "generateKey"
  /\ last.base = KeyedSites(<<"A">>)
  /\ last.site = <<"A">>
  /\ last.result # NoKey

----------------------------------------------------------------------------
\* C20: upsertSite with a site that sanitizeSite accepts replaces, at its
\* position, the entry of the list that has the key of the sanitised site,
\* leaving the length and every other entry as they were, and appends the
\* sanitised site as the last element when no entry has that key; no other
\* entry is moved, changed or removed, and the store holds the result.
C20_UpsertInPlace ==
  (/\ last.surface = "caller" /\ last.op = "upsert"
   /\ sanitizeSite(last.site) # Null /\ last.result = "success")
    => LET s == sanitizeSite(last.site)
       IN  /\ IF HasKey(last.base, s.key)
                THEN /\ Len(last.sites) = Len(last.base)
                     /\ \A i \in 1..Len(last.base) :
                          last.sites[i] = IF toUpperCase(last.base[i].key) = s.key
                                            THEN s ELSE last.base[i]
                ELSE /\ Len(last.sites) = Len(last.base) + 1
                     /\ \A i \in 1..Len(last.base) : last.sites[i] = last.base[i]
                     /\ last.sites[Len(last.sites)] = s
           /\ store = Stored(last.sites)
           /\ callerSites = last.sites

\* the first of two or more entries was replaced by a site with another name
C20_Witness ==
  /\ last.surface = "caller"
  /\ last.op = "upsert"
  /\ last.result = "success"
  /\ Len(last.base) >= 2
  /\ Len(last.sites) = Len(last.base)
  /\ last.sites[1] # last.base[1]
  /\ last.sites[1] = sanitizeSite(last.site)

----------------------------------------------------------------------------
\* C21 as stated: every call of upsertSite, whatever the site, one that
\* sanitizeSite rejects included, ends with a write of the sequence it returns
\* to the store.
C21_UpsertAlwaysPersists ==
  (last.surface = "caller" /\ last.op = "upsert")
    => /\ last.write = "ok"
       /\ store = Stored(last.sites)

\* C21 amended: a call of upsertSite with a site that sanitizeSite accepts
\* ends with a write of the sequence it returns, or throws when the store
\* rejects that write; a call with a site that sanitizeSite rejects returns
\* the list it read and writes nothing.
C21_UpsertPersistsValid ==
  (last.surface = "caller" /\ last.op = "upsert")
    => IF sanitizeSite(last.site) # Null
         THEN \/ /\ last.result = "success"
                 /\ last.write = "ok"
                 /\ store = Stored(last.sites)
              \/ /\ last.result = "threw"
                 /\ last.write = "failed"
                 /\ store = last.before
         ELSE /\ last.result = "rejected"
              /\ last.write = "none"
              /\ last.sites = last.base
              /\ store = last.before

\* upsertSite was called with a site that sanitizeSite rejects while the
\* store held something other than the list it returned
C21_Witness ==
  /\ last.surface = "caller"
  /\ last.op = "upsert"
  /\ last.result = "rejected"
  /\ store # Stored(last.sites)

----------------------------------------------------------------------------
\* C22: last writer wins.  With the popup and the options page each holding
\* its own snapshot, after any interleaving of their operations the store
\* holds, in its entirety, the sequence written by the write that completed
\* last: nothing of an earlier write is merged in, so every entry of the
\* store comes from the last writer's snapshot or from its argument.
C22_LastWriterWins ==
  (last.surface \in {"popup", "options"} /\ last.write = "ok")
    => /\ store = Stored(Serialize(last.sites))
       /\ last.op = "remove"
            => Range(store.items) \subseteq Range(Serialize(last.base))
       /\ last.op = "add"
            => Range(store.items)
                 \subseteq Range(Serialize(last.base)) \cup {sanitizeSite(last.site)}
       /\ last.op = "edit"
            => Range(store.items)
                 \subseteq Range(Serialize(last.base)) \cup {last.site, Null}
       /\ last.op = "import"
            => \A i \in 1..Len(store.items) : store.items[i] \notin Range(last.base)
                 => \E doc \in ImportDocs : store.items[i] \in Range(sanitizeSiteList(
                        IF doc.hasSites THEN JsonArray(doc.sites) ELSE doc))

\* the popup removed a Site from its own snapshot and wrote the result while
\* the options page shows a Site it had added and stored before, which is in
\* neither the popup's snapshot nor the store any more
C22_Witness ==
  /\ last.surface = "popup"
  /\ last.op = "remove"
  /\ last.write = "ok"
  /\ optOpen
  /\ \E i \in 1..Len(optSites) :
        /\ IsObject(optSites[i])
        /\ optSites[i] \notin Range(last.base)
        /\ optSites[i] \notin Range(store.items)

----------------------------------------------------------------------------
\* C23: a mutating operation works on the caller's snapshot only.  The
\* sequence that a call of removeSiteByIndex or upsertSite saves is computed
\* from the snapshot the caller held when it made the call and from the
\* argument, never from what the store holds at that moment.
C23_SnapshotOnly ==
  [][ (last'.surface = "caller" /\ last'.write = "ok")
        => /\ last'.op = "remove"
                => last'.sites = FilterIndex(Spread(callerSites), last'.index)
           /\ last'.op = "upsert"
                => last'.sites
                     = upsertLoaded(callerSites, sanitizeSite(last'.site), TRUE).sites ]_vars

----------------------------------------------------------------------------
\* C24: a proposed site is consumed exactly once.  Over all options pages and
\* all interleavings of their get and remove of "pendingSite", each payload
\* the context menu wrote prefills a form at most once, and a payload that
\* has prefilled a form is no longer in the store.
C24_ConsumedOnce ==
  /\ \A g \in 1..Len(prefills) : prefills[g] <= 1
  /\ pendingSite # NoPending => prefills[pendingSite.gen] = 0

----------------------------------------------------------------------------
\* the snapshot of page p holds a Site with the normalised url of the payload
\* the page consumed
UrlRegistered(p) ==
  \E i \in 1..Len(pages[p].sites) :
    pages[p].sites[i].url = normalizeUrl(pages[p].pending.url)

\* the form of page p is in edit mode on the first Site with the payload's
\* url and holds that Site's fields
EditsRegistered(p) ==
  LET f == pages[p].form
      sites == pages[p].sites
  IN  /\ f.formMode = "edit"
      /\ f.editingIndex \in 0..(Len(sites) - 1)
      /\ sites[f.editingIndex + 1].url = normalizeUrl(pages[p].pending.url)
      /\ \A j \in 1..f.editingIndex : sites[j].url # normalizeUrl(pages[p].pending.url)
      /\ f.formName = sites[f.editingIndex + 1].name
      /\ f.formUrl = sites[f.editingIndex + 1].url
      /\ f.formKey = sites[f.editingIndex + 1].key

\* C25 as stated: when an options page consumes a proposed site whose
\* normalised url is the url of a Site of the snapshot, the form is in edit
\* mode on that Site with its name, url and key; otherwise the form is in add
\* mode with key = generateKey(snapshot, preferredKey), which is no Site's key
\* whenever fewer than 36 keys are in use.
C25_PrefillAsStated ==
  \A p \in PageIds :
    pages[p].prefilled =>
      IF UrlRegistered(p) THEN EditsRegistered(p)
      ELSE /\ pages[p].form.formMode = "add"
           /\ pages[p].form.formKey
                = generateKey(pages[p].sites, pages[p].pending.preferredKey)
           /\ Cardinality(UsedKeys(pages[p].sites)) < 36
                => \A i \in 1..Len(pages[p].sites) :
                     pages[p].sites[i].key # pages[p].form.formKey

\* C25 amended: as stated, except that when all 36 keys are in use, so that
\* generateKey returns no key, the key field holds the payload's preferredKey,
\* or nothing when the payload has none.
C25_Prefill ==
  \A p \in PageIds :
    pages[p].prefilled =>
      IF UrlRegistered(p) THEN EditsRegistered(p)
      ELSE LET availableKey == generateKey(pages[p].sites, pages[p].pending.preferredKey)
               preferredKey == pages[p].pending.preferredKey
           IN  /\ pages[p].form.formMode = "add"
               /\ pages[p].form.formName = pages[p].pending.name
               /\ pages[p].form.formUrl = normalizeUrl(pages[p].pending.url)
               /\ availableKey # NoKey => pages[p].form.formKey = availableKey
               /\ availableKey = NoKey
                    => pages[p].form.formKey
                         = (IF preferredKey # NoPreferred THEN preferredKey ELSE <<>>)
               /\ Cardinality(UsedKeys(pages[p].sites)) < 36
                    => \A i \in 1..Len(pages[p].sites) :
                         pages[p].sites[i].key # pages[p].form.formKey

\* one options page consumed a proposed site whose url is registered and is
\* in edit mode, the other consumed one whose url is not and is in add mode
C25_Witness ==
  \E p, q \in PageIds :
    /\ pages[p].prefilled /\ UrlRegistered(p) /\ pages[p].form.formMode = "edit"
    /\ pages[q].prefilled /\ ~UrlRegistered(q) /\ pages[q].form.formMode = "add"
    /\ pages[q].form.formKey # <<>>

----------------------------------------------------------------------------
\* C26: the migration from the sync area runs at most once.  Over any
\* sequence of install/update events, rejected storage calls included, the
\* sync sites are copied into the local store at most once, and once the
\* migration flag is set no later event copies them, clears the flag or
\* changes the local registry through migration.
C26_MigratesOnce ==
  [][ /\ copies' <= 1
      /\ (migrated /\ last'.surface = "background" /\ last'.op = "install")
           => /\ copies' = copies
              /\ migrated'
              /\ \/ store' = store
                 \/ store.kind = "absent" /\ store' = Stored(DEFAULT_SITES) ]_vars

----------------------------------------------------------------------------
\* C30: migration and default initialisation never destroy user data.  A
\* non-empty sites list that the local store holds when an install/update
\* event runs is unchanged afterwards, and what migration writes under the
\* local sites key is a list whose every element passes sanitizeSite and
\* whose keys are pairwise distinct.
C30_NoDataLoss ==
  (last.surface = "background" /\ last.op = "install")
    => /\ (last.before.kind = "array" /\ Len(last.before.items) > 0)
            => store = last.before
       /\ last.result = "migrated"
            => /\ \A i \in 1..Len(store.items) : sanitizeSite(store.items[i]) # Null
               /\ KeysDistinct(store.items)

----------------------------------------------------------------------------
\* C27: an edit affects exactly the Site the user selected.  Whenever the
\* form of the options page is in edit mode, editingIndex is an index of the
\* page's snapshot and the Site there is the one whose fields handleEdit
\* loaded into the form; a successful edit submit keeps the number of Sites
\* and changes no Site but the one at editingIndex.
C27_EditSelected ==
  /\ (optOpen /\ formMode = "edit")
       => /\ editingIndex \in 0..(Len(optSites) - 1)
          /\ optSites[editingIndex + 1] = Site(formName, formUrl, formKey)
  /\ (last.surface = "options" /\ last.op = "edit" /\ last.result = "success")
       => /\ Len(last.sites) = Len(last.base)
          /\ \A i \in 1..Len(last.base) :
                i # last.index + 1 => last.sites[i] = last.base[i]

----------------------------------------------------------------------------
\* a surface wrote a sequence through add, remove, the edit flow or import
Persisted ==
  /\ last.surface \in {"popup", "options"}
  /\ last.op \in {"add", "remove", "edit", "import"}
  /\ last.write = "ok"

\* C28: save/load round trip.  After a surface has persisted a sequence S
\* through add, remove, the edit flow or import, a load returns exactly S, the
\* empty S left by removing the only Site included, and a Site that was
\* removed is not in what a load returns.
C28_SaveLoadRoundTrip ==
  Persisted
    => /\ loadSites(store, TRUE) = last.sites
       /\ (last.op = "remove" /\ last.index \in 0..(Len(last.base) - 1))
            => last.base[last.index + 1] \notin Range(loadSites(store, TRUE))

----------------------------------------------------------------------------
\* C29: the duplicate-key check of add agrees with the key normalisation of
\* sanitizeSite.  An add of a site whose key, trimmed and upper-cased, is the
\* key of an entry of the list fails with DuplicateKey, and a successful add
\* to a list with pairwise distinct keys returns one with pairwise distinct
\* keys.
C29_DuplicateCheckNormalises ==
  (last.surface = "caller" /\ last.op = "add" /\ AllSites(last.base) /\ IsString(last.site.key))
    => /\ (\E i \in 1..Len(last.base) :
              toUpperCase(last.base[i].key) = toUpperCase(trim(last.site.key)))
            => last.result = "DuplicateKey"
       /\ (last.result = "success" /\ KeysDistinct(last.base))
            => KeysDistinct(last.sites)

====
